---- MODULE Spec2Model ----
(***************************************************************************)
(* cargo-single-pyo3: one Rust source file is wrapped in a Cargo package   *)
(* under the temp directory, built with `cargo build`, and the produced    *)
(* shared library is copied to <module_name>.so in the working directory.  *)
(*                                                                         *)
(* Texts, file names and manifest text are sequences of strings: a file    *)
(* name or a source text is a sequence of one-character strings, the       *)
(* manifest is a sequence of literal chunks and characters.  A path is a   *)
(* sequence of components, each component a sequence of strings.           *)
(***************************************************************************)
EXTENDS Integers, Sequences, FiniteSets, TLC

VARIABLES
  fs,          \* files: absolute path -> content
  dirs,        \* directories that exist
  args,        \* per run: the parsed command line (INPUT, --release, --pyo3)
  pc,          \* per run: position in run()
  crate_name,  \* per run: local of run(), Option as <<>> / <<v>>
  module_name, \* per run: local of run()
  cargo_dir,   \* per run: local of run()
  deps,        \* per run: result of collect_deps
  config,      \* per run: the CargoConfig value built in create_dir
  status,      \* per run: exit status of the cargo child ("none" before)
  result,      \* per run: what run() returned ("running" before)
  stages,      \* per run: history of the stages executed, in order
  written,     \* per run: history of the paths this run created or wrote
  dll_ext      \* env::consts::DLL_EXTENSION of the platform the tool runs on

vars == <<fs, dirs, args, pc, crate_name, module_name, cargo_dir, deps,
          config, status, result, stages, written, dll_ext>>

----------------------------------------------------------------------------
(* Bounds of the model *)

\* lines of a generated source text (directive parser inputs)
MaxLines == 3

Runs == {1, 2}

----------------------------------------------------------------------------
(* Sequences helpers *)

Drop(s, n) == IF n >= Len(s) THEN <<>> ELSE SubSeq(s, n + 1, Len(s))

RECURSIVE Flatten(_)
Flatten(ss) == IF ss = <<>> THEN <<>> ELSE Head(ss) \o Flatten(Tail(ss))

None == <<>>
Some(v) == <<v>>

----------------------------------------------------------------------------
(* std: str::lines, str::starts_with, chars().skip(n), str::replace,       *)
(* [String]::join, String::from_utf8                                        *)

LF == "\n"
CR == "\r"
\* a byte that is no valid UTF-8
BadByte == "\\xFF"

FromUtf8Ok(bytes) == \A i \in 1..Len(bytes) : bytes[i] # BadByte

\* index of the first LF of s, 0 when there is none
RECURSIVE FirstLF(_, _)
FirstLF(s, i) ==
  IF i > Len(s) THEN 0
  ELSE IF s[i] = LF THEN i ELSE FirstLF(s, i + 1)

\* str::lines: split at LF (a final LF opens no further line), each line
\* without its LF and without a CR directly before that LF.  A CR that ends
\* the text with no LF after it is kept or dropped depending on the version
\* of std; no text of the model ends that way.
RECURSIVE StrLines(_)
StrLines(s) ==
  IF s = <<>> THEN <<>>
  ELSE LET k == FirstLF(s, 1) IN
       IF k = 0 THEN <<s>>
       ELSE LET raw  == SubSeq(s, 1, k - 1)
                line == IF raw # <<>> /\ raw[Len(raw)] = CR
                        THEN SubSeq(raw, 1, Len(raw) - 1) ELSE raw
            IN <<line>> \o StrLines(Drop(s, k))

StartsWith(s, p) == Len(s) >= Len(p) /\ SubSeq(s, 1, Len(p)) = p

Skip(s, n) == Drop(s, n)

DirectivePrefix == <<"/", "/", " ">>

\* replacen(from, to, 1): only the first occurrence
ReplaceChar_First(s, from, to) ==
  [i \in 1..Len(s) |->
     IF s[i] = from /\ (\A j \in 1..(i - 1) : s[j] # from) THEN to ELSE s[i]]

ReplaceChar(s, from, to) ==
  [i \in 1..Len(s) |-> IF s[i] = from THEN to ELSE s[i]]

RECURSIVE Join(_, _)
Join(ss, sep) ==
  IF ss = <<>> THEN <<>>
  ELSE IF Len(ss) = 1 THEN ss[1]
  ELSE ss[1] \o <<sep>> \o Join(Tail(ss), sep)

----------------------------------------------------------------------------
(* collect_deps, the loop over src.lines() *)

\* the loop with `continue` in place of `break`
RECURSIVE CollectLoop_Continue(_)
CollectLoop_Continue(lines) ==
  IF lines = <<>> THEN <<>>
  ELSE IF ~StartsWith(Head(lines), DirectivePrefix) THEN CollectLoop_Continue(Tail(lines))
  ELSE <<Skip(Head(lines), 3)>> \o CollectLoop_Continue(Tail(lines))

RECURSIVE CollectLoop(_)
CollectLoop(lines) ==
  IF lines = <<>> THEN <<>>
  ELSE IF ~StartsWith(Head(lines), DirectivePrefix) THEN <<>>
  ELSE <<Skip(Head(lines), 3)>> \o CollectLoop(Tail(lines))

CollectDepsOf(src) == CollectLoop(StrLines(src))

----------------------------------------------------------------------------
(* std::path: Path::join, Path::file_name, Path::file_stem; env::temp_dir, *)
(* the working directory, env::consts::DLL_EXTENSION                       *)

PathJoin(p, c) == Append(p, c)

Cwd == << <<"cwd">> >>

TempDir == << <<"tmp">> >>

\* a relative path names a file under the working directory
Resolve(rel) == Cwd \o rel

DllExtensions == {"so", "dylib", "dll"}

FileName(path) ==
  IF path = <<>> \/ path[Len(path)] = <<".", ".">> THEN None
  ELSE Some(path[Len(path)])

\* index of the last "." of name, 0 when there is none
RECURSIVE LastDot(_, _)
LastDot(name, i) ==
  IF i = 0 THEN 0
  ELSE IF name[i] = "." THEN i ELSE LastDot(name, i - 1)

\* the file name up to its last ".", the whole name when it has no "." or
\* only a leading one
FileStem(path) ==
  LET fname == FileName(path) IN
  IF fname = None THEN None
  ELSE LET name == fname[1]
           k    == LastDot(name, Len(name))
       IN IF k <= 1 THEN Some(name) ELSE Some(SubSeq(name, 1, k - 1))

----------------------------------------------------------------------------
(* create_dir: the CargoConfig value and its text *)

Pyo3Repo == "https://github.com/PyO3/pyo3"

Pyo3Branch == "main"

\* the source-control fields set in both branches
Pyo3Dependency_AlwaysGit(pyo3_version) ==
  [version |-> IF pyo3_version = "github" THEN "*" ELSE pyo3_version,
   features |-> <<"extension-module">>,
   git |-> Some(Pyo3Repo), branch |-> Some(Pyo3Branch)]

Pyo3Dependency(pyo3_version) ==
  IF pyo3_version = "github"
  THEN [version |-> "*", features |-> <<"extension-module">>,
        git |-> Some(Pyo3Repo), branch |-> Some(Pyo3Branch)]
  ELSE [version |-> pyo3_version, features |-> <<"extension-module">>,
        git |-> None, branch |-> None]

CargoConfig(crate, module, pyo3_version) ==
  [package |-> [name |-> crate, version |-> "0.1.0", edition |-> "2018"],
   lib |-> [name |-> module, crate_type |-> <<"cdylib">>],
   dependencies |-> [pyo3 |-> Pyo3Dependency(pyo3_version)]]

Quoted(s) == <<"\"">> \o s \o <<"\"">>

\* one `key = "value"` line; an Option field that is None is left out
TomlOptField(key, opt) ==
  IF opt = None THEN <<>> ELSE <<key>> \o Quoted(<<opt[1]>>) \o <<LF>>

\* toml::to_string of the CargoConfig
TomlToString(cfg) ==
  LET dep == cfg.dependencies.pyo3 IN
     <<"[package]", LF>>
  \o <<"name = ">> \o Quoted(cfg.package.name) \o <<LF>>
  \o <<"version = ">> \o Quoted(<<cfg.package.version>>) \o <<LF>>
  \o <<"edition = ">> \o Quoted(<<cfg.package.edition>>) \o <<LF>>
  \o <<LF, "[lib]", LF>>
  \o <<"name = ">> \o Quoted(cfg.lib.name) \o <<LF>>
  \o <<"crate-type = [">> \o Quoted(<<cfg.lib.crate_type[1]>>) \o <<"]", LF>>
  \o <<LF, "[dependencies.pyo3]", LF>>
  \o <<"version = ">> \o Quoted(<<dep.version>>) \o <<LF>>
  \o <<"features = [">> \o Quoted(<<dep.features[1]>>) \o <<"]", LF>>
  \o TomlOptField("git = ", dep.git)
  \o TomlOptField("branch = ", dep.branch)

RECURSIVE Dedup(_)
Dedup(ss) ==
  IF ss = <<>> THEN <<>>
  ELSE LET rest == Dedup(SubSeq(ss, 1, Len(ss) - 1))
           last == ss[Len(ss)]
       IN IF \E i \in 1..Len(rest) : rest[i] = last THEN rest ELSE Append(rest, last)

\* the dependency lines collected into a set first
ConfigContents_Dedup(cfg, ds) ==
  TomlToString(cfg) \o <<LF, "[dependencies]", LF>> \o Join(Dedup(ds), LF)

\* config_contents after the push_str
ConfigContents(cfg, ds) ==
  TomlToString(cfg) \o <<LF, "[dependencies]", LF>> \o Join(ds, LF)

DotCargoConfig == <<"[target.x86_64-apple-darwin] ... [target.aarch64-apple-darwin] ...">>

----------------------------------------------------------------------------
(* The file system and the external build *)

Exists(files, p) == p \in DOMAIN files

WriteFile(files, p, content) ==
  [q \in DOMAIN files \cup {p} |-> IF q = p THEN content ELSE files[q]]

\* the ancestors of p below the root, and p itself
DirAll(p) == {SubSeq(p, 1, n) : n \in 1..Len(p)}

Parent(p) == SubSeq(p, 1, Len(p) - 1)

\* index of the first chunk of text equal to c, 0 when there is none
RECURSIVE IndexOf(_, _, _)
IndexOf(text, c, i) ==
  IF i > Len(text) THEN 0
  ELSE IF text[i] = c THEN i ELSE IndexOf(text, c, i + 1)

\* cargo reads the library name from the [lib] table of the manifest
LibNameOf(manifest) ==
  LET h    == IndexOf(manifest, "[lib]", 1)
      from == h + 4
      to   == IndexOf(manifest, "\"", from) - 1
  IN SubSeq(manifest, from, to)

\* what cargo links: a function of the manifest and the entry source it read
Compile(manifest, lib_rs) == <<"cdylib of">> \o lib_rs \o <<"built with">> \o manifest

ProfileDir(release) == IF release THEN <<"release">> ELSE <<"debug">>

\* file name cargo gives a cdylib on a platform with the lib prefix
DylibName(name, ext) == <<"lib">> \o name \o <<".", ext>>

----------------------------------------------------------------------------
(* Results of run(): Ok(()) or the anyhow::Error that `?` / bail! returned. *)
(* names: the paths the error's message mentions.                          *)

Running == [kind |-> "Running", msg |-> "", names |-> {}]

Ok == [kind |-> "Ok", msg |-> "", names |-> {}]

\* a std::io::Error converted by `?`: the operating system's message only
IoError(msg) == [kind |-> "Io", msg |-> msg, names |-> {}]

\* the FromUtf8Error of String::from_utf8
Utf8Error == [kind |-> "Utf8", msg |-> "invalid utf-8 sequence", names |-> {}]

\* Option::context and bail!
MsgError(msg) == [kind |-> "Msg", msg |-> msg, names |-> {}]

NotFound == "No such file or directory (os error 2)"

\* a failure the environment causes (permissions, full disk)
OsFault == "Permission denied (os error 13)"

\* main: run().unwrap() panics on Err
ExitCode(res) == IF res.kind = "Ok" THEN 0 ELSE 101

----------------------------------------------------------------------------
(* The inputs: the files on disk before the tool runs, the command lines   *)

NameAB == <<"a", "-", "b", ".", "r">>
NameDash == <<"-", ".", "-", ".", "r">>
NameBad == <<"z", ".", "r">>
NameMissing == <<"m", ".", "r">>
NameDotDot == <<".", ".">>
SubDir == <<"d">>

\* "// d", "// d", "x", "// e": two equal directives, code, a late directive
TextDup == <<"/", "/", " ", "d", LF, "/", "/", " ", "d", LF, "x", LF,
             "/", "/", " ", "e", LF>>

\* "// e" ended by CR LF, an empty line, "// d" without a line end
TextCrLf == <<"/", "/", " ", "e", CR, LF, LF, "/", "/", " ", "d">>

\* "// " alone (an empty directive), then "// d e"
TextEmptyDep == <<"/", "/", " ", LF, "/", "/", " ", "d", " ", "e", LF>>

TextBad == <<"/", "/", " ", "d", LF, BadByte>>

InitialFiles ==
  (Resolve(<<NameAB>>) :> TextDup) @@
  (Resolve(<<SubDir, NameAB>>) :> TextCrLf) @@
  (Resolve(<<NameDash>>) :> TextEmptyDep) @@
  (Resolve(<<NameBad>>) :> TextBad)

InitialDirs == {Cwd, PathJoin(Cwd, SubDir), TempDir}

Inputs ==
  {<<NameAB>>, <<SubDir, NameAB>>, <<NameDash>>, <<NameBad>>,
   <<NameMissing>>, <<NameDotDot>>}

\* --pyo3 absent, --pyo3 github, --pyo3 0.13.2
Pyo3Args == {None, Some("github"), Some("0.13.2")}

ArgSet == [input : Inputs, release : BOOLEAN, pyo3 : Pyo3Args]

UnwrapOr(opt, default) == IF opt = None THEN default ELSE opt[1]

----------------------------------------------------------------------------
(* run(), one action per step *)

Fail(r, err) ==
  /\ pc' = [pc EXCEPT ![r] = "done"]
  /\ result' = [result EXCEPT ![r] = err]

Goto(r, label) ==
  /\ pc' = [pc EXCEPT ![r] = label]
  /\ UNCHANGED result

Did(r, op) == stages' = [stages EXCEPT ![r] = Append(@, op)]

Wrote(r, paths) == written' = [written EXCEPT ![r] = @ \cup paths]

\* a directory of its own for each invocation
TakeStem_PrivateDir(r) ==
  /\ pc[r] = "file_stem"
  /\ LET stem == FileStem(args[r].input) IN
     IF stem = None
     THEN /\ Fail(r, MsgError("No file stem"))
          /\ UNCHANGED <<crate_name, module_name, cargo_dir>>
     ELSE /\ crate_name' = [crate_name EXCEPT ![r] = stem[1]]
          /\ module_name' = [module_name EXCEPT ![r] = ReplaceChar(stem[1], "-", "_")]
          /\ cargo_dir' = [cargo_dir EXCEPT ![r] =
                             PathJoin(TempDir, stem[1] \o <<".", ToString(r)>>)]
          /\ Goto(r, "collect_deps")
  /\ UNCHANGED <<fs, dirs, args, deps, config, status, stages, written, dll_ext>>

\* lines 139-150: INPUT, crate_name, module_name, cargo_dir (the --verbose
\* print of cargo_dir, lines 151-153, changes no state and is left out)
TakeStem(r) ==
  /\ pc[r] = "file_stem"
  /\ LET stem == FileStem(args[r].input) IN
     IF stem = None
     THEN /\ Fail(r, MsgError("No file stem"))
          /\ UNCHANGED <<crate_name, module_name, cargo_dir>>
     ELSE /\ crate_name' = [crate_name EXCEPT ![r] = stem[1]]
          /\ module_name' = [module_name EXCEPT ![r] = ReplaceChar(stem[1], "-", "_")]
          /\ cargo_dir' = [cargo_dir EXCEPT ![r] = PathJoin(TempDir, stem[1])]
          /\ Goto(r, "collect_deps")
  /\ UNCHANGED <<fs, dirs, args, deps, config, status, stages, written, dll_ext>>

\* line 155 and collect_deps, lines 39-52
CollectDeps(r) ==
  /\ pc[r] = "collect_deps"
  /\ Did(r, "collect_deps")
  /\ LET input == Resolve(args[r].input) IN
     \/ /\ ~Exists(fs, input)
        /\ Fail(r, IoError(NotFound))
        /\ UNCHANGED deps
     \/ /\ Exists(fs, input)
        /\ Fail(r, IoError(OsFault))
        /\ UNCHANGED deps
     \/ /\ Exists(fs, input)
        /\ ~FromUtf8Ok(fs[input])
        /\ Fail(r, Utf8Error)
        /\ UNCHANGED deps
     \/ /\ Exists(fs, input)
        /\ FromUtf8Ok(fs[input])
        /\ deps' = [deps EXCEPT ![r] = CollectDepsOf(fs[input])]
        /\ Goto(r, "config")
  /\ UNCHANGED <<fs, dirs, args, crate_name, module_name, cargo_dir, config,
                 status, written, dll_ext>>

\* lines 157-164 and create_dir, lines 62-94
BuildConfig(r) ==
  /\ pc[r] = "config"
  /\ Did(r, "config")
  /\ config' = [config EXCEPT ![r] =
        Some(CargoConfig(crate_name[r], module_name[r], UnwrapOr(args[r].pyo3, "*")))]
  /\ Goto(r, "create_src_dir")
  /\ UNCHANGED <<fs, dirs, args, crate_name, module_name, cargo_dir, deps,
                 status, written, dll_ext>>

Under(p, d) == Len(p) > Len(d) /\ SubSeq(p, 1, Len(d)) = d

\* the workspace removed before it is created
CreateSrcDir_Fresh(r) ==
  /\ pc[r] = "create_src_dir"
  /\ Did(r, "create_src_dir")
  /\ LET src_dir == PathJoin(cargo_dir[r], <<"src">>)
         kept    == {p \in DOMAIN fs : ~Under(p, cargo_dir[r])}
     IN
     \/ /\ fs' = [p \in kept |-> fs[p]]
        /\ dirs' = {d \in dirs : ~Under(d, cargo_dir[r])} \cup DirAll(src_dir)
        /\ Wrote(r, DirAll(src_dir))
        /\ Goto(r, "write_manifest")
     \/ /\ Fail(r, IoError(OsFault))
        /\ UNCHANGED <<fs, dirs, written>>
  /\ UNCHANGED <<args, crate_name, module_name, cargo_dir, deps, config,
                 status, dll_ext>>

\* create_dir, lines 96-97
CreateSrcDir(r) ==
  /\ pc[r] = "create_src_dir"
  /\ Did(r, "create_src_dir")
  /\ LET src_dir == PathJoin(cargo_dir[r], <<"src">>) IN
     \/ /\ dirs' = dirs \cup DirAll(src_dir)
        /\ Wrote(r, DirAll(src_dir) \ dirs)
        /\ Goto(r, "write_manifest")
     \/ /\ Fail(r, IoError(OsFault))
        /\ UNCHANGED <<dirs, written>>
  /\ UNCHANGED <<fs, args, crate_name, module_name, cargo_dir, deps, config,
                 status, dll_ext>>

\* create_dir, lines 99-102
WriteManifest(r) ==
  /\ pc[r] = "write_manifest"
  /\ Did(r, "write_manifest")
  /\ LET config_contents == ConfigContents(config[r][1], deps[r])
         path == PathJoin(cargo_dir[r], <<"Cargo.toml">>)
     IN
     \/ /\ Parent(path) \in dirs
        /\ fs' = WriteFile(fs, path, config_contents)
        /\ Wrote(r, {path})
        /\ Goto(r, "copy_input")
     \/ /\ Fail(r, IoError(IF Parent(path) \in dirs THEN OsFault ELSE NotFound))
        /\ UNCHANGED <<fs, written>>
  /\ UNCHANGED <<dirs, args, crate_name, module_name, cargo_dir, deps, config,
                 status, dll_ext>>

\* the copy left out when src/lib.rs is there already
CopyInput_KeepExisting(r) ==
  /\ pc[r] = "copy_input"
  /\ Did(r, "copy_input")
  /\ LET input == Resolve(args[r].input)
         path == PathJoin(PathJoin(cargo_dir[r], <<"src">>), <<"lib.rs">>)
     IN IF Exists(fs, path)
        THEN UNCHANGED <<fs, written>>
        ELSE /\ fs' = WriteFile(fs, path, fs[input])
             /\ Wrote(r, {path})
  /\ Goto(r, "create_dot_cargo")
  /\ UNCHANGED <<dirs, args, crate_name, module_name, cargo_dir, deps, config,
                 status, dll_ext>>

\* the result of the copy dropped instead of returned with `?`
CopyInput_IgnoreError(r) ==
  /\ pc[r] = "copy_input"
  /\ Did(r, "copy_input")
  /\ LET input == Resolve(args[r].input)
         path == PathJoin(PathJoin(cargo_dir[r], <<"src">>), <<"lib.rs">>)
     IN
     \/ /\ fs' = WriteFile(fs, path, fs[input])
        /\ Wrote(r, {path})
     \/ UNCHANGED <<fs, written>>
  /\ Goto(r, "create_dot_cargo")
  /\ UNCHANGED <<dirs, args, crate_name, module_name, cargo_dir, deps, config,
                 status, dll_ext>>

\* create_dir, line 103
CopyInput(r) ==
  /\ pc[r] = "copy_input"
  /\ Did(r, "copy_input")
  /\ LET input == Resolve(args[r].input)
         path == PathJoin(PathJoin(cargo_dir[r], <<"src">>), <<"lib.rs">>)
     IN
     \/ /\ Exists(fs, input)
        /\ Parent(path) \in dirs
        /\ fs' = WriteFile(fs, path, fs[input])
        /\ Wrote(r, {path})
        /\ Goto(r, "create_dot_cargo")
     \/ /\ Fail(r, IoError(IF Exists(fs, input) /\ Parent(path) \in dirs
                           THEN OsFault ELSE NotFound))
        /\ UNCHANGED <<fs, written>>
  /\ UNCHANGED <<dirs, args, crate_name, module_name, cargo_dir, deps, config,
                 status, dll_ext>>

\* create_dir, lines 105-106
CreateDotCargo(r) ==
  /\ pc[r] = "create_dot_cargo"
  /\ Did(r, "create_dot_cargo")
  /\ LET dot_cargo == PathJoin(cargo_dir[r], <<".cargo">>) IN
     \/ /\ dirs' = dirs \cup DirAll(dot_cargo)
        /\ Wrote(r, DirAll(dot_cargo) \ dirs)
        /\ Goto(r, "write_config")
     \/ /\ Fail(r, IoError(OsFault))
        /\ UNCHANGED <<dirs, written>>
  /\ UNCHANGED <<fs, args, crate_name, module_name, cargo_dir, deps, config,
                 status, dll_ext>>

\* create_dir, lines 107-123
WriteConfig(r) ==
  /\ pc[r] = "write_config"
  /\ Did(r, "write_config")
  /\ LET path == PathJoin(PathJoin(cargo_dir[r], <<".cargo">>), <<"config.toml">>) IN
     \/ /\ Parent(path) \in dirs
        /\ fs' = WriteFile(fs, path, DotCargoConfig)
        /\ Wrote(r, {path})
        /\ Goto(r, "cargo")
     \/ /\ Fail(r, IoError(IF Parent(path) \in dirs THEN OsFault ELSE NotFound))
        /\ UNCHANGED <<fs, written>>
  /\ UNCHANGED <<dirs, args, crate_name, module_name, cargo_dir, deps, config,
                 status, dll_ext>>

\* the exit status not tested
Cargo_IgnoreStatus(r) ==
  /\ pc[r] = "cargo"
  /\ Did(r, "cargo")
  /\ \E code \in {"exit 0", "exit 101"} :
       /\ status' = [status EXCEPT ![r] = code]
       /\ Goto(r, "copy_artifact")
  /\ UNCHANGED <<fs, dirs, args, crate_name, module_name, cargo_dir, deps, config,
                 written, dll_ext>>

\* lines 166-180: the cargo child, run in cargo_dir, and the test of its
\* exit status.  cargo is outside the program: it may not start, fail, or
\* exit 0 having put the library where its own configuration says.
Cargo(r) ==
  /\ pc[r] = "cargo"
  /\ Did(r, "cargo")
  /\ LET manifest == fs[PathJoin(cargo_dir[r], <<"Cargo.toml">>)]
         lib_rs   == fs[PathJoin(PathJoin(cargo_dir[r], <<"src">>), <<"lib.rs">>)]
         out_dir  == PathJoin(PathJoin(cargo_dir[r], <<"target">>),
                              ProfileDir(args[r].release))
         out      == PathJoin(out_dir, DylibName(LibNameOf(manifest), dll_ext))
     IN
     \/ /\ Fail(r, IoError(NotFound))
        /\ UNCHANGED <<fs, dirs, status>>
     \/ /\ status' = [status EXCEPT ![r] = "exit 101"]
        /\ Fail(r, MsgError("cargo failed"))
        /\ UNCHANGED <<fs, dirs>>
     \/ /\ status' = [status EXCEPT ![r] = "exit 0"]
        /\ fs' = WriteFile(fs, out, Compile(manifest, lib_rs))
        /\ dirs' = dirs \cup DirAll(out_dir)
        /\ Goto(r, "copy_artifact")
     \/ /\ status' = [status EXCEPT ![r] = "exit 0"]
        /\ UNCHANGED <<fs, dirs>>
        /\ Goto(r, "copy_artifact")
  /\ UNCHANGED <<args, crate_name, module_name, cargo_dir, deps, config,
                 written, dll_ext>>

\* a missing library taken for nothing to do
CopyArtifact_Swallow(r) ==
  /\ pc[r] = "copy_artifact"
  /\ Did(r, "copy_artifact")
  /\ LET lib_src_path == PathJoin(PathJoin(PathJoin(cargo_dir[r], <<"target">>),
                                           ProfileDir(args[r].release)),
                                  DylibName(module_name[r], dll_ext))
         lib_dst_path == Resolve(<<module_name[r] \o <<".so">>>>)
     IN IF Exists(fs, lib_src_path)
        THEN /\ fs' = WriteFile(fs, lib_dst_path, fs[lib_src_path])
             /\ Wrote(r, {lib_dst_path})
        ELSE UNCHANGED <<fs, written>>
  /\ pc' = [pc EXCEPT ![r] = "done"]
  /\ result' = [result EXCEPT ![r] = Ok]
  /\ UNCHANGED <<dirs, args, crate_name, module_name, cargo_dir, deps, config,
                 status, dll_ext>>

\* lines 182-188
CopyArtifact(r) ==
  /\ pc[r] = "copy_artifact"
  /\ Did(r, "copy_artifact")
  /\ LET lib_name == DylibName(module_name[r], dll_ext)
         release == ProfileDir(args[r].release)
         lib_src_path == PathJoin(PathJoin(PathJoin(cargo_dir[r], <<"target">>),
                                           release), lib_name)
         lib_dst_path == Resolve(<<module_name[r] \o <<".so">>>>)
     IN
     \/ /\ Exists(fs, lib_src_path)
        /\ fs' = WriteFile(fs, lib_dst_path, fs[lib_src_path])
        /\ Wrote(r, {lib_dst_path})
        /\ pc' = [pc EXCEPT ![r] = "done"]
        /\ result' = [result EXCEPT ![r] = Ok]
     \/ /\ Fail(r, IoError(IF Exists(fs, lib_src_path) THEN OsFault ELSE NotFound))
        /\ UNCHANGED <<fs, written>>
  /\ UNCHANGED <<dirs, args, crate_name, module_name, cargo_dir, deps, config,
                 status, dll_ext>>

Step(r) ==
  \/ TakeStem(r)
  \/ CollectDeps(r)
  \/ BuildConfig(r)
  \/ CreateSrcDir(r)
  \/ WriteManifest(r)
  \/ CopyInput(r)
  \/ CreateDotCargo(r)
  \/ WriteConfig(r)
  \/ Cargo(r)
  \/ CopyArtifact(r)

----------------------------------------------------------------------------
(* Specifications *)

InitLocals ==
  /\ pc = [r \in Runs |-> "file_stem"]
  /\ crate_name = [r \in Runs |-> <<>>]
  /\ module_name = [r \in Runs |-> <<>>]
  /\ cargo_dir = [r \in Runs |-> <<>>]
  /\ deps = [r \in Runs |-> <<>>]
  /\ config = [r \in Runs |-> None]
  /\ status = [r \in Runs |-> "none"]
  /\ result = [r \in Runs |-> Running]
  /\ stages = [r \in Runs |-> <<>>]
  /\ written = [r \in Runs |-> {}]

\* The tool is run, and when it has ended it is run again.
Init ==
  /\ fs = InitialFiles
  /\ dirs = InitialDirs
  /\ args \in [Runs -> ArgSet]
  /\ dll_ext \in DllExtensions
  /\ InitLocals

Turn(r) == \A q \in Runs : q < r => pc[q] = "done"

Next ==
  \E r \in Runs :
    \/ Turn(r) /\ TakeStem(r)
    \/ Turn(r) /\ CollectDeps(r)
    \/ Turn(r) /\ BuildConfig(r)
    \/ Turn(r) /\ CreateSrcDir(r)
    \/ Turn(r) /\ WriteManifest(r)
    \/ Turn(r) /\ CopyInput(r)
    \/ Turn(r) /\ CreateDotCargo(r)
    \/ Turn(r) /\ WriteConfig(r)
    \/ Turn(r) /\ Cargo(r)
    \/ Turn(r) /\ CopyArtifact(r)

Spec == Init /\ [][Next]_vars

\* Two invocations of the tool at the same time, as two processes.
ConcInputs == {<<NameAB>>, <<SubDir, NameAB>>}

ConcArgSet == [input : ConcInputs, release : {FALSE}, pyo3 : {None, Some("github")}]

InitConc ==
  /\ fs = InitialFiles
  /\ dirs = InitialDirs
  /\ args \in [Runs -> ConcArgSet]
  /\ dll_ext = "so"
  /\ InitLocals

NextConc == \E r \in Runs : Step(r)

SpecConc == InitConc /\ [][NextConc]_vars

\* The directive parser on generated source texts: up to MaxLines lines,
\* each ended by LF or CR LF, the last one possibly by the end of the file.
LineContents ==
  {<<>>,
   <<"/", "/", " ">>,
   <<"/", "/", " ", "d">>,
   <<"/", "/", "d">>,
   <<" ", "/", "/", " ", "d">>,
   <<"d", " ", "/", "/", " ">>}

LineEnds == {<<LF>>, <<CR, LF>>}

GenLineLists ==
  UNION {[1..n -> LineContents \X (LineEnds \cup {<<>>})] : n \in 0..MaxLines}

\* only the last line can lack its line end
WellEnded(ls) == \A i \in 1..(Len(ls) - 1) : ls[i][2] # <<>>

TextOf(ls) == Flatten([i \in 1..Len(ls) |-> ls[i][1] \o ls[i][2]])

GenTexts == {TextOf(ls) : ls \in {l \in GenLineLists : WellEnded(l)}}

ParseArgs == [input |-> <<NameAB>>, release |-> FALSE, pyo3 |-> None]

InitParse ==
  /\ fs \in {(Resolve(<<NameAB>>) :> text) : text \in GenTexts}
  /\ dirs = InitialDirs
  /\ args = [r \in Runs |-> ParseArgs]
  /\ dll_ext = "so"
  /\ InitLocals

NextParse ==
  \E r \in Runs :
    \/ Turn(r) /\ TakeStem(r)
    \/ Turn(r) /\ CollectDeps(r)

SpecParse == InitParse /\ [][NextParse]_vars

----------------------------------------------------------------------------
(* What the claims speak of, stated without the operators above *)

\* positions of the line feeds of a text
LFPos(text) == {i \in 1..Len(text) : text[i] = LF}

\* position of the k-th line feed, 0 for k = 0
NthLF(text, k) ==
  IF k = 0 THEN 0
  ELSE CHOOSE i \in LFPos(text) : Cardinality({j \in LFPos(text) : j <= i}) = k

\* the lines of a text: one per line feed, and one more when characters
\* follow the last line feed
NumLines(text) ==
  Cardinality(LFPos(text))
    + (IF text # <<>> /\ text[Len(text)] # LF THEN 1 ELSE 0)

\* the k-th line, without its line end (LF or CR LF)
LineAt(text, k) ==
  LET first == NthLF(text, k - 1) + 1
      last  == IF k <= Cardinality(LFPos(text))
               THEN LET e == NthLF(text, k) - 1 IN
                    IF e >= first /\ text[e] = CR THEN e - 1 ELSE e
               ELSE Len(text)
  IN [i \in 1..(last - first + 1) |-> text[first + i - 1]]

\* the k-th of the fields a text splits into at its line feeds
FieldAt(text, k) ==
  LET first == NthLF(text, k - 1) + 1
      last  == IF k <= Cardinality(LFPos(text)) THEN NthLF(text, k) - 1 ELSE Len(text)
  IN [i \in 1..(last - first + 1) |-> text[first + i - 1]]

Qualifies(line) ==
  Len(line) >= 3 /\ line[1] = "/" /\ line[2] = "/" /\ line[3] = " "

\* N: how many lines at the top of the text qualify, up to the first that does not
LeadingDirectives(text) ==
  Cardinality({k \in 1..NumLines(text) :
                 \A j \in 1..k : Qualifies(LineAt(text, j))})

InputText(r) == fs[Resolve(args[r].input)]

Parsed(r) == "collect_deps" \in {stages[r][i] : i \in 1..Len(stages[r])}
             /\ ~(pc[r] = "done" /\ Len(stages[r]) = 1)

----------------------------------------------------------------------------
(* C1: for a text whose first N lines begin with "// " and whose line N+1, *)
(* if any, does not, collect_deps returns exactly N specs, in file order,  *)
(* each its line without the prefix; duplicates stay, and no line after    *)
(* the first that does not qualify contributes.                            *)
C1_LeadingDirectives ==
  \A r \in Runs :
    Parsed(r) =>
      LET text == InputText(r)
          n    == LeadingDirectives(text)
      IN /\ Len(deps[r]) = n
         /\ \A k \in 1..n : <<"/", "/", " ">> \o deps[r][k] = LineAt(text, k)

\* parsed: one directive, an empty line, and a third line that qualifies
C1_Witness ==
  /\ Parsed(1)
  /\ NumLines(InputText(1)) = 3
  /\ Qualifies(LineAt(InputText(1), 3))
  /\ LineAt(InputText(1), 2) = <<>>
  /\ deps[1] = << <<"d">> >>

----------------------------------------------------------------------------
(* Names of the claims: the run's files, computed from the command line *)

Ops(r) == {stages[r][i] : i \in 1..Len(stages[r])}

\* the input's file name without its extension
StemOfInput(r) ==
  LET name == args[r].input[Len(args[r].input)] IN
  CHOOSE p \in {SubSeq(name, 1, k) : k \in 1..Len(name)} :
    /\ Len(p) < Len(name)
    /\ name[Len(p) + 1] = "."
    /\ \A i \in (Len(p) + 2)..Len(name) : name[i] # "."

\* the stem with "_" where it has "-"
ModuleOfInput(r) ==
  LET stem == StemOfInput(r) IN
  [i \in 1..Len(stem) |-> IF stem[i] = "-" THEN "_" ELSE stem[i]]

WorkspaceOf(r) == << <<"tmp">>, StemOfInput(r) >>

ManifestOf(r) == WorkspaceOf(r) \o << <<"Cargo.toml">> >>

EntryOf(r) == WorkspaceOf(r) \o << <<"src">>, <<"lib.rs">> >>

LinkerConfigOf(r) == WorkspaceOf(r) \o << <<".cargo">>, <<"config.toml">> >>

\* <workspace>/target/<debug|release>/lib<module_name>.<platform-ext>
ArtifactOf(r) ==
  WorkspaceOf(r)
    \o << <<"target">>,
          IF args[r].release THEN <<"release">> ELSE <<"debug">>,
          <<"lib">> \o ModuleOfInput(r) \o <<".", dll_ext>> >>

\* <module_name>.so in the working directory
DestinationOf(r) == << <<"cwd">>, ModuleOfInput(r) \o <<".so">> >>

\* the manifest is written and the run goes on
AfterManifest(r) ==
  pc[r] \in {"copy_input", "create_dot_cargo", "write_config", "cargo", "copy_artifact"}

\* cargo exited 0 and the library it was to leave is not there
BuiltNothing(r) ==
  /\ pc[r] = "done"
  /\ status[r] = "exit 0"
  /\ ~Exists(fs, ArtifactOf(r))

----------------------------------------------------------------------------
(* C2 as stated: when the build exits 0 and the expected artifact is       *)
(* missing, the run fails with an IoError that names the missing path, it  *)
(* never reports success and does not create <module_name>.so.             *)
C2_AsStated ==
  \A r \in Runs :
    BuiltNothing(r) =>
      /\ result[r].kind = "Io"
      /\ ArtifactOf(r) \in result[r].names
      /\ DestinationOf(r) \notin written[r]

(* C2 as amended: when the build exits 0 and the expected artifact is      *)
(* missing, the run fails with the IoError of the copy, whose message is   *)
(* the operating system's "No such file or directory" and names no path;   *)
(* the process exits non-zero and <module_name>.so is not created.         *)
C2_MissingArtifactFails ==
  \A r \in Runs :
    BuiltNothing(r) =>
      /\ result[r] = [kind |-> "Io", msg |-> NotFound, names |-> {}]
      /\ ExitCode(result[r]) # 0
      /\ DestinationOf(r) \notin written[r]
      /\ stages[r][Len(stages[r])] = "copy_artifact"

C2_Witness ==
  /\ BuiltNothing(1)
  /\ ~Exists(fs, DestinationOf(1))
  /\ args[1].input = <<NameAB>>

----------------------------------------------------------------------------
(* C3: when the build command exits non-zero the run ends in the error     *)
(* "cargo failed": the copy of the artifact is never executed, so this run *)
(* neither creates nor overwrites <module_name>.so, and the build command  *)
(* is invoked once.                                                        *)
C3_BuildFailureStops ==
  \A r \in Runs :
    status[r] = "exit 101" =>
      /\ pc[r] = "done"
      /\ result[r].kind = "Msg" /\ result[r].msg = "cargo failed"
      /\ "copy_artifact" \notin Ops(r)
      /\ DestinationOf(r) \notin written[r]
      /\ Cardinality({i \in 1..Len(stages[r]) : stages[r][i] = "cargo"}) = 1

\* the second run's build fails where the first run's library still lies
C3_Witness ==
  /\ status[2] = "exit 101"
  /\ result[1] = Ok
  /\ Exists(fs, ArtifactOf(2))
  /\ Exists(fs, DestinationOf(2))

----------------------------------------------------------------------------
(* C4: the manifest's pyo3 table has, when --pyo3 is "github", the version *)
(* "*", the fixed repository and the fixed branch; for any other value, or *)
(* none (then "*"), it has that version and neither git nor branch.        *)
C4_SourceMode ==
  \A r \in Runs :
    AfterManifest(r) =>
      LET m == fs[ManifestOf(r)]
          h == IndexOf(m, "[dependencies.pyo3]", 1)
          g == IndexOf(m, "git = ", 1)
          b == IndexOf(m, "branch = ", 1)
      IN /\ h > 0
         /\ m[h + 2] = "version = "
         /\ IF args[r].pyo3 = <<"github">>
            THEN /\ m[h + 4] = "*"
                 /\ g > h /\ m[g + 2] = "https://github.com/PyO3/pyo3"
                 /\ b > h /\ m[b + 2] = "main"
            ELSE /\ m[h + 4] = (IF args[r].pyo3 = <<>> THEN "*" ELSE args[r].pyo3[1])
                 /\ g = 0
                 /\ b = 0

C4_Witness ==
  /\ AfterManifest(2)
  /\ args[2].pyo3 = <<"github">>
  /\ args[1].pyo3 = <<"0.13.2">>
  /\ IndexOf(fs[ManifestOf(2)], "git = ", 1) > 0

----------------------------------------------------------------------------
(* C5: the manifest written is the serialized document, then the heading   *)
(* [dependencies] on a line of its own, then the parsed specs, unchanged,  *)
(* in parse order, one per line: none added, dropped, moved or merged.     *)
C5_RawDependencyBlock ==
  \A r \in Runs :
    AfterManifest(r) =>
      LET m    == fs[ManifestOf(r)]
          h    == IndexOf(m, "[dependencies]", 1)
          tail == [i \in 1..(Len(m) - h - 1) |-> m[h + 1 + i]]
          n    == LeadingDirectives(InputText(r))
      IN /\ IndexOf(m, "[package]", 1) = 1
         /\ IndexOf(m, "[lib]", 1) > 1
         /\ IndexOf(m, "[dependencies.pyo3]", 1) > IndexOf(m, "[lib]", 1)
         /\ h > IndexOf(m, "[dependencies.pyo3]", 1)
         /\ m[h - 1] = LF /\ m[h + 1] = LF
         /\ Len(deps[r]) = n
         /\ IF n = 0 THEN tail = <<>>
            ELSE /\ Cardinality(LFPos(tail)) + 1 = n
                 /\ \A k \in 1..n :
                      /\ FieldAt(tail, k) = deps[r][k]
                      /\ <<"/", "/", " ">> \o FieldAt(tail, k) = LineAt(InputText(r), k)

\* two equal specs, both written
C5_Witness ==
  /\ AfterManifest(1)
  /\ Len(deps[1]) = 2
  /\ deps[1][1] = deps[1][2]
  /\ Cardinality(LFPos(fs[ManifestOf(1)])) >= 2

----------------------------------------------------------------------------
(* C6: once the workspace is materialized for an input, src/lib.rs in it   *)
(* has the input's bytes, whatever it held before.                         *)
C6_EntryIsInput ==
  \A r \in Runs :
    pc[r] \in {"create_dot_cargo", "write_config", "cargo", "copy_artifact"} =>
      /\ Exists(fs, EntryOf(r))
      /\ fs[EntryOf(r)] = InputText(r)

\* the second run finds the lib.rs of a first run on another input
C6_Witness ==
  /\ pc[2] = "cargo"
  /\ EntryOf(1) \in written[1]
  /\ EntryOf(1) = EntryOf(2)
  /\ InputText(1) # InputText(2)

----------------------------------------------------------------------------
(* C7: a run that succeeds has copied the artifact to <module_name>.so in  *)
(* the working directory, module_name being the input's stem with "_" for  *)
(* every "-"; the suffix is .so on every platform, and the workspace keeps *)
(* the stem as it is.                                                      *)
C7_Destination ==
  \A r \in Runs :
    result[r] = Ok =>
      /\ Exists(fs, DestinationOf(r))
      /\ {p \in written[r] : p[1] = <<"cwd">>} = {DestinationOf(r)}
      /\ cargo_dir[r] = WorkspaceOf(r)
      /\ WorkspaceOf(r) \in dirs
      /\ (\A q \in Runs : q > r => "cargo" \notin Ops(q)) =>
            fs[DestinationOf(r)] = fs[ArtifactOf(r)]

\* a stem with two hyphens, on a platform whose libraries end in .dylib
C7_Witness ==
  /\ result[1] = Ok
  /\ args[1].input = <<NameDash>>
  /\ dll_ext = "dylib"
  /\ Exists(fs, << <<"cwd">>, <<"_", ".", "_", ".so">> >>)
  /\ << <<"tmp">>, <<"-", ".", "-">> >> \in dirs

----------------------------------------------------------------------------
(* C8: in one run the steps execute at most once each and in the order     *)
(* parsing, manifest construction, materialization, build, relocation; the *)
(* first failure ends the run and nothing executes after it.  The build is *)
(* invoked only when manifest, entry source and linker config are written, *)
(* the artifact is copied only when the build exited 0, and a read or      *)
(* decode failure of the input leaves the file system as it was.           *)
StepOrder ==
  <<"collect_deps", "config", "create_src_dir", "write_manifest", "copy_input",
    "create_dot_cargo", "write_config", "cargo", "copy_artifact">>

C8_StateInOrder ==
  \A r \in Runs :
    /\ Len(stages[r]) <= Len(StepOrder)
    /\ \A i \in 1..Len(stages[r]) : stages[r][i] = StepOrder[i]
    /\ result[r].kind \notin {"Running", "Ok"} => pc[r] = "done"
    /\ (pc[r] = "cargo" \/ "cargo" \in Ops(r)) =>
          {ManifestOf(r), EntryOf(r), LinkerConfigOf(r)} \subseteq written[r]
    /\ (pc[r] = "copy_artifact" \/ "copy_artifact" \in Ops(r)) => status[r] = "exit 0"
    /\ result[r].kind = "Utf8" => stages[r] = <<"collect_deps">>
    /\ (pc[r] = "done" /\ stages[r] = <<"collect_deps">>) =>
          /\ written[r] = {}
          /\ (\A q \in Runs : q # r => stages[q] = <<>>) =>
                fs = InitialFiles /\ dirs = InitialDirs

C8_EndedStaysEnded ==
  \A r \in Runs :
    pc[r] = "done" =>
      /\ pc'[r] = "done"
      /\ stages'[r] = stages[r]
      /\ written'[r] = written[r]
      /\ result'[r] = result[r]

C8_StagesInOrder == []C8_StateInOrder /\ [][C8_EndedStaysEnded]_vars

\* the second run stops at the undecodable input after a first run succeeded
C8_Witness ==
  /\ result[1] = Ok
  /\ result[2].kind = "Utf8"
  /\ written[2] = {}

----------------------------------------------------------------------------
(* C9 as stated: when the build is invoked the workspace holds the         *)
(* manifest, the linker config and the entry source this run wrote, and    *)
(* nothing an earlier run left.                                            *)
C9_AsStated ==
  \A r \in Runs :
    pc[r] = "cargo" =>
      /\ {p \in DOMAIN fs : Under(p, WorkspaceOf(r))}
           = {ManifestOf(r), EntryOf(r), LinkerConfigOf(r)}
      /\ {ManifestOf(r), EntryOf(r), LinkerConfigOf(r)} \subseteq written[r]

(* C9 as amended: the workspace is created if it is missing and is never   *)
(* emptied.  When the build is invoked the manifest, the linker config and *)
(* the entry source are the ones this run wrote, every other file of the   *)
(* workspace lies under target/, and the artifact an earlier successful    *)
(* run with the same crate name left is still there; materializing into a  *)
(* workspace that exists succeeds.                                         *)
C9_WorkspaceReused ==
  \A r \in Runs :
    pc[r] = "cargo" =>
      /\ {ManifestOf(r), EntryOf(r), LinkerConfigOf(r)} \subseteq DOMAIN fs
      /\ {ManifestOf(r), EntryOf(r), LinkerConfigOf(r)} \subseteq written[r]
      /\ fs[EntryOf(r)] = InputText(r)
      /\ \A p \in DOMAIN fs :
           Under(p, WorkspaceOf(r)) =>
             \/ p \in {ManifestOf(r), EntryOf(r), LinkerConfigOf(r)}
             \/ Under(p, WorkspaceOf(r) \o << <<"target">> >>)
      /\ \A q \in Runs :
           (result[q] = Ok /\ WorkspaceOf(q) = WorkspaceOf(r)) =>
             Exists(fs, ArtifactOf(q))

\* the second run has materialized into the workspace of the first, whose
\* artifact is there
C9_Witness ==
  /\ pc[2] = "cargo"
  /\ result[1] = Ok
  /\ WorkspaceOf(1) = WorkspaceOf(2)
  /\ Exists(fs, ArtifactOf(1))
  /\ WorkspaceOf(2) \notin written[2]

----------------------------------------------------------------------------
(* C10: the workspace path is a function of the input's stem alone: two    *)
(* runs at the same time on inputs of the same stem use the same workspace *)
(* and the same files in it.  The witness is the corruption: a run         *)
(* reports success having copied out a library built from its own entry    *)
(* source with the manifest the other run wrote.                           *)
C10_SharedWorkspace ==
  \A r, q \in Runs :
    (pc[r] # "file_stem" /\ pc[q] # "file_stem"
       /\ StemOfInput(r) = StemOfInput(q)) =>
      /\ cargo_dir[r] = cargo_dir[q]
      /\ cargo_dir[r] = WorkspaceOf(r)

OwnManifest(r) == ConfigContents(config[r][1], deps[r])

C10_Witness ==
  /\ args[1].input # args[2].input
  /\ result[1] = Ok
  /\ pc[2] \notin {"file_stem", "collect_deps", "config", "done"}
  /\ OwnManifest(1) # OwnManifest(2)
  /\ fs[DestinationOf(1)] = Compile(OwnManifest(2), InputText(1))

====
